---- MODULE Spec2Model ----
(***************************************************************************)
(* Document-acquisition and knowledge-base pipeline of the research        *)
(* assistant: the fetcher (_fetch_online_doc), the search client           *)
(* (_web_search), the summarization gate (summarize_doc, add_doc), the     *)
(* acquisition tool (fetch_online_doc), the readiness check (write_report)  *)
(* and the tools that read the knowledge base (n_docs_downloaded,          *)
(* get_all_docs), as written under src/src.                                *)
(*                                                                         *)
(* A text is a sequence of characters; a character is an integer.  The     *)
(* character at position i of a fetched page is i, so that a slice taken   *)
(* at the wrong offset is visible.  Logging statements are not modelled.   *)
(* One tool call is in flight at a time (the agent loop awaits each tool), *)
(* and a call advances from one await that suspends to the next.  The      *)
(* specification SpecPair runs two calls as two tasks of one event loop.   *)
(***************************************************************************)
EXTENDS Integers, Sequences, FiniteSets, TLC

\* ---------------------------------------------------------------- constants
N_RETRIES == 2
N_SEARCH_HITS == 20
N_DOCS_MIN_FOR_REPORT == 3
N_PAGE_SUMMARIZE_TRIGGER == 10
MAX_PAGES_SUMMARIZE == 50

\* ------------------------------------------------------------------- bounds
\* characters per page (500*6.7 in the source), scaled down
CharsPerPage == 1
\* the session stops acquiring once the knowledge base holds MaxDocs documents
MaxDocs == 3
\* the same, in the specifications that vary the network and the documents
MaxDocsFocus == 1
\* longest raw hit list the search provider returns in the model
MaxHits == 20
\* network attempts observed per call (above N_RETRIES + 1, so an overrun shows)
MaxObservedAttempts == 4
\* the session stops acquiring once MaxTempFiles temporary files are on disk
MaxTempFiles == 2
\* characters of the preview in the status string (300*6.7 in the source), scaled down
SnippetChars == 1

\* ------------------------------------------------------------ value domains
NoneStr == "<None>"
NoneTxt == [none |-> TRUE, v |-> <<>>]
Some(t) == [none |-> FALSE, v |-> t]

NL == 0
Min(a, b) == IF a < b THEN a ELSE b
Text(n) == [i \in 1..n |-> i]

\* Python s[a:b] on a sequence, 0 <= a
Slice(s, a, b) == SubSeq(s, a + 1, Min(b, Len(s)))

Urls == {"http://a", "http://b.pdf"}
ExcerptText == <<-7, -8>>
Summaries == {<<-1>>, <<-1, -2>>}

RawHit(k) == [title |-> IF k = 1 THEN "t1" ELSE "", href |-> "http://a", body |-> ExcerptText]

\* ------------------------------------------------------------------- state
VARIABLES
    docs,       \* deps.docs: the knowledge base, a sequence of Doc records
    op,         \* the tool call in flight or last finished: "none", "acquire", "search"
    pc,         \* where the call stands: "idle" or the await it is suspended at
    title,      \* fetch_online_doc locals after normalisation
    url,
    excerpt,
    attempt,    \* loop variable of the retry loop in flight
    nAttempts,  \* network attempts / provider calls made by the call
    sleeps,     \* delays passed to asyncio.sleep by the call, in order
    outcomes,   \* outcome of each attempt of the call, in order
    fRet,       \* what _fetch_online_doc gave its caller
    content,    \* text the Doc was constructed with (after the excerpt fallback)
    doc,        \* the Doc object handed to add_doc (its text is rewritten in place)
    sumQuery,   \* queries sent to summarizer_agent.run by the call
    sumRun,     \* what summarizer_agent.run gave back to the call
    ret,        \* how the tool call ended: a returned value or a raised exception
    sResults,   \* the list _web_search built
    last,       \* the text the preceding acquire call fetched, kept when the current
                \* call has the same title and url
    tempFiles,  \* temporary files on disk that finished PDF extraction calls created
    goal,       \* write_report: user_intent_long after its normalisation
    warning,    \* write_report: the WarningTooFewDocs the call returned
    writerDeps, \* write_report: the deps of each report_writer_agent.run of the call
    status,     \* add_doc: the parts of the status string its return statement built
    docs0,      \* the knowledge base as it was when the call started
    allDocs,    \* the list object get_all_docs returned last, and what it then held
    other       \* the locals of the other task of the event loop (SpecPair)

vars == <<docs, op, pc, title, url, excerpt, attempt, nAttempts, sleeps, outcomes,
          fRet, content, doc, sumQuery, sumRun, ret, sResults, last,
          tempFiles, goal, warning, writerDeps, status, docs0, allDocs, other>>

reportVars == <<goal, warning, writerDeps>>

NoRet == [kind |-> "none", val |-> ""]
NoFRet == [kind |-> "none", text |-> << >>]
Return(v) == [kind |-> "return", val |-> v]
Raise(e) == [kind |-> "raise", val |-> e]
\* Doc(title=..., url=..., text=...); records are equal when all three fields are
Doc(t, u, x) == [title |-> t, url |-> u, text |-> x]
NoDoc == Doc("", "", << >>)
NoRun == [kind |-> "none", data |-> << >>]
NoLast == [valid |-> FALSE, text |-> << >>]
\* WarningTooFewDocs(user_intent_long=..., n_docs=...)
WarningTooFewDocs(g, n) == [valid |-> TRUE, user_intent_long |-> g, n_docs |-> n]
NoWarning == [valid |-> FALSE, user_intent_long |-> "", n_docs |-> 0]
\* ReportWriterDeps(user_intent_long=..., docs=ctx.deps.docs)
ReportWriterDeps(g, kb) == [user_intent_long |-> g, docs |-> kb]
\* no status string built; n_docs = -1 in a status that names no size
NoStatus == [valid |-> FALSE, snippet |-> << >>, n_docs |-> -1]
\* the one list object of the program that holds Docs: ResearchAssistantDeps.docs
KbList == "deps.docs"
NoList == [valid |-> FALSE, ref |-> "", at |-> << >>]
\* the elements a list object holds now
ListContents(ref) == IF ref = KbList THEN docs ELSE << >>

\* the locals of a task that has called nothing yet
NoFrame ==
    [op |-> "none", pc |-> "idle", title |-> NoneStr, url |-> NoneStr, excerpt |-> NoneTxt,
     attempt |-> 0, nAttempts |-> 0, sleeps |-> << >>, outcomes |-> << >>, fRet |-> NoFRet,
     content |-> NoneTxt, doc |-> NoDoc, sumQuery |-> << >>, sumRun |-> NoRun,
     ret |-> NoRet, sResults |-> << >>, last |-> NoLast, goal |-> "",
     warning |-> NoWarning, writerDeps |-> << >>, status |-> NoStatus, docs0 |-> << >>]

Init ==
    /\ docs = << >>
    /\ op = "none"
    /\ pc = "idle"
    /\ title = NoneStr
    /\ url = NoneStr
    /\ excerpt = NoneTxt
    /\ attempt = 0
    /\ nAttempts = 0
    /\ sleeps = << >>
    /\ outcomes = << >>
    /\ fRet = NoFRet
    /\ content = NoneTxt
    /\ doc = NoDoc
    /\ sumQuery = << >>
    /\ sumRun = NoRun
    /\ ret = NoRet
    /\ sResults = << >>
    /\ last = NoLast
    /\ tempFiles = 0
    /\ goal = ""
    /\ warning = NoWarning
    /\ writerDeps = << >>
    /\ status = NoStatus
    /\ docs0 = << >>
    /\ allDocs = NoList
    /\ other = NoFrame

\* ------------------------------------------------- summarization gate (pure)
\* int(N_PAGE_SUMMARIZE_TRIGGER*500*6.7)
n_char_threshold == N_PAGE_SUMMARIZE_TRIGGER * CharsPerPage

\* int(MAX_PAGES_SUMMARIZE*500*6.7)
max_pages_in_char == MAX_PAGES_SUMMARIZE * CharsPerPage

\* variant: the head one character short
first_chunk_short(text) == Slice(text, 0, n_char_threshold - 1)
\* doc.text[:n_char_threshold]
first_chunk(text) == Slice(text, 0, n_char_threshold)

\* variant: the tail without the cap
text_to_summarize_uncapped(text) == Slice(text, n_char_threshold, Len(text))
\* doc.text[n_char_threshold:], cut to max_pages_in_char when longer
text_to_summarize(text) ==
    LET tail == Slice(text, n_char_threshold, Len(text))
    IN  IF Len(tail) > max_pages_in_char THEN Slice(tail, 0, max_pages_in_char) ELSE tail

\* the query summarize_doc sends: title, first chunk as context, text to summarize
summarize_query(d) ==
    [title |-> d.title, first_chunk |-> first_chunk(d.text), tail |-> text_to_summarize(d.text)]

\* what summarizer_agent.run can give back: a plain string (an agent object whose
\* run returns text), a run-result object wrapping the text (pydantic_ai's Agent),
\* or an exception
SummarizerRuns ==
    [kind : {"str", "RunResult"}, data : Summaries] \cup {[kind |-> "raise", data |-> << >>]}

\* return first_chunk + "\n" + summary_second_chunk : str + str concatenates,
\* str + (an object that is no str) raises TypeError
summarize_doc_return(text, run) ==
    IF run.kind = "str"
    THEN [kind |-> "return", text |-> first_chunk(text) \o <<NL>> \o run.data]
    ELSE [kind |-> "raise", text |-> << >>]

\* variant: no empty-text check
add_doc_rejects_nothing(text) == FALSE
\* `not doc.text`
add_doc_rejects(text) == text = << >>

\* variant: a text of exactly the threshold length summarized too
add_doc_summarizes_at_threshold(text) == Len(text) >= n_char_threshold
\* `len(doc.text) > n_char_threshold`
add_doc_summarizes(text) == Len(text) > n_char_threshold

\* SNIPPET_LENGTH = 300*6.7 is the float 2010.0, not an int
SNIPPET_LENGTH_IS_INT == FALSE

\* the return statement of add_doc: the f-string evaluates doc.text[:SNIPPET_LENGTH];
\* a slice bound that is a float raises TypeError
add_doc_return(d) ==
    IF SNIPPET_LENGTH_IS_INT THEN Return("DownloadedAndAdded") ELSE Raise("TypeError")

\* what the f-string of the return statement holds when it can be built: the
\* snippet doc.text[:SNIPPET_LENGTH]; it names the url and no knowledge base size
add_doc_status(d) ==
    IF SNIPPET_LENGTH_IS_INT
    THEN [valid |-> TRUE, snippet |-> Slice(d.text, 0, SnippetChars), n_docs |-> -1]
    ELSE NoStatus

\* ----------------------------------------------------------- fetcher (pure)
FetchOutcomes ==
    {"ok", "ClientConnectorError", "ClientResponseError", "TimeoutError", "Exception"}

\* variant: 3 ** attempt
fetch_backoff_base3(a) == 3 ^ a
\* variant: 2 * attempt
fetch_backoff_linear(a) == 2 * a
\* asyncio.sleep(2 ** attempt)
fetch_backoff(a) == 2 ^ a

\* variant: every exception retried
fetch_except_retry_all(exc, a) == IF a < N_RETRIES THEN "sleep" ELSE "break"
\* variant: without the `except Exception` clause
fetch_except_network_only(exc, a) ==
    IF exc \in {"ClientResponseError", "ClientConnectorError"}
    THEN IF a < N_RETRIES THEN "sleep" ELSE "break"
    ELSE "raise"
\* the except clauses of _fetch_online_doc: what the loop does after attempt a
\* ended with exception exc
fetch_except(exc, a) ==
    IF exc \in {"ClientResponseError", "ClientConnectorError"}
    THEN IF a < N_RETRIES THEN "sleep" ELSE "break"
    ELSE "break"

\* variant: a loop that does not advance
next_attempt_stuck(a) == a
\* for attempt in range(N_RETRIES + 1): the next value of the loop variable
next_attempt(a) == a + 1
in_range(a) == a < N_RETRIES + 1

\* ----------------------------------------------------- PDF extraction (pure)
\* urls for which `url.lower().endswith(".pdf")` holds
PdfUrls == {"http://b.pdf"}
is_pdf(u) == u \in PdfUrls

\* tempfile.NamedTemporaryFile(delete=False): closing the file does not delete it,
\* and _fetch_pdf_content has no os.remove / os.unlink
NamedTemporaryFile_delete == FALSE

\* temporary files an attempt that ended with outcome o created: none on the HTML
\* path; on the PDF path the file is written once the download is complete, so a
\* network error or a timeout precedes it, a successful extraction follows it,
\* and any other exception (a failed read, a failed write, a parse error of
\* pymupdf) falls on either side
pdf_temp_files_created(u, o) ==
    IF ~is_pdf(u) THEN {0}
    ELSE IF o = "ok" THEN {1}
    ELSE IF o = "Exception" THEN {0, 1}
    ELSE {0}

\* of these, the files still on disk when _fetch_pdf_content has finished
pdf_temp_files_left(u, o) ==
    IF NamedTemporaryFile_delete THEN {0} ELSE pdf_temp_files_created(u, o)

\* ------------------------------------------------------ search client (pure)
SearchOutcomes == {"ok", "Ratelimit", "DuckDuckGoSearchException", "OtherException"}

search_backoff(a) == 4 * (1 + a)

\* variant: every provider error retried
search_except_retry_all(exc, a) ==
    IF exc \notin {"Ratelimit", "DuckDuckGoSearchException"}
    THEN "propagate"
    ELSE IF a < N_RETRIES THEN "sleep" ELSE "reraise"
\* the except clause of _web_search.  `attempt < n_retries` names n_retries, which
\* is defined nowhere (the module imports N_RETRIES): evaluating it raises NameError.
\* `and` evaluates it only when "Ratelimit" is in the message.
search_except(exc, a) ==
    IF exc \notin {"Ratelimit", "DuckDuckGoSearchException"}
    THEN "propagate"
    ELSE IF exc = "Ratelimit" THEN "NameError" ELSE "reraise"

\* variant: the url taken from the title
to_search_result_url_from_title(raw) ==
    [title |-> raw.title, url |-> raw.title, excerpt |-> raw.body]
\* SearchResult(title=raw["title"], url=raw["href"], excerpt=raw["body"])
to_search_result(raw) == [title |-> raw.title, url |-> raw.href, excerpt |-> raw.body]

ProviderResponses ==
    {[i \in 1..n |-> RawHit(i)] : n \in 0..Min(MaxHits, N_SEARCH_HITS)}

\* ------------------------------------------------------------------ inputs
\* what the agent passes as (url, title, excerpt): nothing, a URL string with
\* optional title and excerpt, or a SearchResult (whose fields are all strings)
StrCandidates(U, T, E) ==
    {[form |-> "str", url |-> u, title |-> t, excerpt |-> e] : u \in U, t \in T, e \in E}

SearchResultCandidates(U, T, E) ==
    {[form |-> "SearchResult", url |-> u, title |-> t, excerpt |-> Some(e)] :
        u \in U, t \in T, e \in E}

NoCandidate == [form |-> "None", url |-> NoneStr, title |-> NoneStr, excerpt |-> NoneTxt]

Candidates ==
    {NoCandidate}
    \cup StrCandidates(Urls, {NoneStr, "", "t1"}, {NoneTxt, Some(<< >>), Some(ExcerptText)})
    \cup SearchResultCandidates(Urls, {"", "t1"}, {<< >>, ExcerptText})

CandidatesSession ==
    {NoCandidate}
    \cup StrCandidates({"http://a"}, {NoneStr, "t1"}, {NoneTxt})
    \cup SearchResultCandidates({"http://a"}, {"t1"}, {ExcerptText})

CandidatesNet == StrCandidates(Urls, {NoneStr}, {NoneTxt, Some(ExcerptText)})

\* text a successful fetch-and-extract can yield: nothing, a short page, pages
\* at and just over the summarization trigger, at and just over the tail cap
FetchTexts ==
    {Text(n) : n \in {0, 1, n_char_threshold, n_char_threshold + 1,
                      n_char_threshold + max_pages_in_char,
                      n_char_threshold + max_pages_in_char + 1}}

FetchTextsSession == {Text(n) : n \in {0, 1, n_char_threshold + 1}}

SummarizerRunsSession == {r \in SummarizerRuns : r.data \in {<< >>, <<-1>>}}

\* ----------------------------------------------------------------- actions
\* at the start of an acquire call: the text the call that just finished fetched,
\* when that call was an acquire with the same title and url
finished_call(t, u) ==
    IF op = "acquire" /\ fRet.kind = "return" /\ title = t /\ url = u
    THEN [valid |-> TRUE, text |-> fRet.text]
    ELSE NoLast

\* variant: the Doc inserted at the front
add_doc_append_front(d) ==
    /\ docs' = <<d>> \o docs
    /\ doc' = d
    /\ ret' = add_doc_return(d)
    /\ status' = add_doc_status(d)
    /\ pc' = "idle"
    /\ UNCHANGED <<sumQuery>>
\* add_doc from `deps.docs.append(doc)` to its return statement
add_doc_append(d) ==
    /\ docs' = Append(docs, d)
    /\ doc' = d
    /\ ret' = add_doc_return(d)
    /\ status' = add_doc_status(d)
    /\ pc' = "idle"
    /\ UNCHANGED <<sumQuery>>

\* add_doc up to its first await (or to its end when nothing is awaited)
add_doc(d) ==
    IF add_doc_rejects(d.text)
    THEN /\ ret' = Return("CouldntBeRetrieved")
         /\ doc' = d
         /\ pc' = "idle"
         /\ UNCHANGED <<status, docs, sumQuery>>
    ELSE IF add_doc_summarizes(d.text)
    THEN /\ sumQuery' = Append(sumQuery, summarize_query(d))
         /\ doc' = d
         /\ pc' = "summarize"
         /\ UNCHANGED <<status, docs, ret>>
    ELSE add_doc_append(d)

\* `doc_content if doc_content else excerpt`
excerpt_fallback(t, e) == IF t # << >> THEN Some(t) ELSE e

\* fetch_online_doc after `await _fetch_online_doc(url)` gave text t:
\* the excerpt fallback, the Doc constructor (text must be a str), add_doc
fetch_online_doc_resume(t) ==
    LET doc_content == excerpt_fallback(t, excerpt)
    IN  /\ content' = doc_content
        /\ IF doc_content.none
           THEN /\ ret' = Raise("ValidationError")
                /\ pc' = "idle"
                /\ UNCHANGED <<status, docs, doc, sumQuery>>
           ELSE add_doc(Doc(title, url, doc_content.v))

\* _fetch_online_doc returns text t to fetch_online_doc
fetcher_returns(t) ==
    /\ fRet' = [kind |-> "return", text |-> t]
    /\ fetch_online_doc_resume(t)

\* `if not title: title = url`
default_title(t, u) == IF t \in {NoneStr, ""} THEN u ELSE t

\* variant: only the url is checked
args_missing_url_only(hasDeps, c) == c.url = NoneStr
\* `ctx.deps is None or url is None`
args_missing(hasDeps, c) == ~hasDeps \/ c.url = NoneStr

\* the agent calls the tool fetch_online_doc(ctx, url, title, excerpt)
fetch_online_doc(hasDeps, c) ==
    /\ pc = "idle"
    /\ op' = "acquire"
    /\ attempt' = 0
    /\ nAttempts' = 0
    /\ sleeps' = << >>
    /\ outcomes' = << >>
    /\ fRet' = NoFRet
    /\ content' = NoneTxt
    /\ doc' = NoDoc
    /\ sumQuery' = << >>
    /\ sumRun' = NoRun
    /\ sResults' = << >>
    /\ goal' = ""
    /\ warning' = NoWarning
    /\ writerDeps' = << >>
    /\ status' = NoStatus
    /\ docs0' = docs
    /\ UNCHANGED <<docs, tempFiles, allDocs, other>>
    /\ IF args_missing(hasDeps, c)
       THEN /\ ret' = Return("ErrorMissingArgs")
            /\ pc' = "idle"
            /\ title' = NoneStr
            /\ url' = NoneStr
            /\ excerpt' = NoneTxt
            /\ last' = NoLast
       ELSE /\ ret' = NoRet
            /\ pc' = "fetch"
            /\ url' = c.url
            /\ excerpt' = c.excerpt
            /\ title' = default_title(c.title, c.url)
            /\ last' = finished_call(title', url')

\* one pass of the loop body of _fetch_online_doc: the awaited fetch-and-extract
\* ends with outcome o (text t when it succeeds)
fetch_attempt(o, t) ==
    /\ pc = "fetch"
    /\ UNCHANGED <<docs0, allDocs, other>>
    /\ nAttempts < MaxObservedAttempts
    /\ nAttempts' = nAttempts + 1
    /\ outcomes' = Append(outcomes, o)
    /\ \E left \in pdf_temp_files_left(url, o) : tempFiles' = tempFiles + left
    /\ UNCHANGED <<op, title, url, excerpt, attempt, sumRun, sResults, last>>
    /\ UNCHANGED reportVars
    /\ IF o = "ok"
       THEN /\ fetcher_returns(t)
            /\ UNCHANGED sleeps
       ELSE LET h == fetch_except(o, attempt)
            IN  CASE h = "sleep" ->
                       /\ sleeps' = Append(sleeps, fetch_backoff(attempt))
                       /\ pc' = "fetch_sleep"
                       /\ UNCHANGED <<status, docs, fRet, content, doc, sumQuery, ret>>
                  [] h = "break" ->
                       /\ fetcher_returns(<< >>)
                       /\ UNCHANGED sleeps
                  [] OTHER ->
                       /\ fRet' = [kind |-> "raise", text |-> << >>]
                       /\ ret' = Raise(o)
                       /\ pc' = "idle"
                       /\ UNCHANGED <<status, docs, content, doc, sumQuery, sleeps>>

\* asyncio.sleep(2 ** attempt) is over: the loop takes its next value, or ends
fetch_backoff_done ==
    /\ pc = "fetch_sleep"
    /\ UNCHANGED <<docs0, allDocs, other>>
    /\ attempt' = next_attempt(attempt)
    /\ UNCHANGED <<op, title, url, excerpt, nAttempts, sleeps, outcomes, sumRun,
                   sResults, last, tempFiles, goal, warning, writerDeps>>
    /\ IF in_range(attempt')
       THEN /\ pc' = "fetch"
            /\ UNCHANGED <<status, docs, fRet, content, doc, sumQuery, ret>>
       ELSE fetcher_returns(<< >>)

\* variant: the unsummarized Doc stored when the service fails
summarizer_returns_fallback(run) ==
    /\ pc = "summarize"
    /\ UNCHANGED <<docs0, allDocs, other>>
    /\ sumRun' = run
    /\ UNCHANGED <<op, title, url, excerpt, attempt, nAttempts, sleeps, outcomes,
                   fRet, content, sResults, last, tempFiles, goal, warning, writerDeps>>
    /\ IF run.kind = "raise"
       THEN add_doc_append(doc)
       ELSE LET r == summarize_doc_return(doc.text, run)
            IN  IF r.kind = "raise"
                THEN /\ ret' = Raise("TypeError")
                     /\ pc' = "idle"
                     /\ UNCHANGED <<status, docs, doc, sumQuery>>
                ELSE add_doc_append([doc EXCEPT !.text = r.text])
\* summarizer_agent.run comes back to summarize_doc, which returns into add_doc
summarizer_returns(run) ==
    /\ pc = "summarize"
    /\ UNCHANGED <<docs0, allDocs, other>>
    /\ sumRun' = run
    /\ UNCHANGED <<op, title, url, excerpt, attempt, nAttempts, sleeps, outcomes,
                   fRet, content, sResults, last, tempFiles, goal, warning, writerDeps>>
    /\ IF run.kind = "raise"
       THEN /\ ret' = Raise("SummarizerError")
            /\ pc' = "idle"
            /\ UNCHANGED <<status, docs, doc, sumQuery>>
       ELSE LET r == summarize_doc_return(doc.text, run)
            IN  IF r.kind = "raise"
                THEN /\ ret' = Raise("TypeError")
                     /\ pc' = "idle"
                     /\ UNCHANGED <<status, docs, doc, sumQuery>>
                ELSE add_doc_append([doc EXCEPT !.text = r.text])

\* the agent calls the tool web_search(ctx, query), which awaits _web_search
web_search ==
    /\ pc = "idle"
    /\ op' = "search"
    /\ pc' = "search"
    /\ last' = NoLast
    /\ attempt' = 0
    /\ nAttempts' = 0
    /\ sleeps' = << >>
    /\ outcomes' = << >>
    /\ fRet' = NoFRet
    /\ content' = NoneTxt
    /\ doc' = NoDoc
    /\ sumQuery' = << >>
    /\ sumRun' = NoRun
    /\ sResults' = << >>
    /\ ret' = NoRet
    /\ title' = NoneStr
    /\ url' = NoneStr
    /\ excerpt' = NoneTxt
    /\ goal' = ""
    /\ warning' = NoWarning
    /\ writerDeps' = << >>
    /\ status' = NoStatus
    /\ docs0' = docs
    /\ UNCHANGED <<docs, tempFiles, allDocs, other>>

\* one pass of the loop body of _web_search: the provider call ends with outcome
\* o (raw hits when it succeeds).  The backoff sleep, which no run of the code
\* reaches, is taken within the step.
search_attempt(o, hits) ==
    /\ pc = "search"
    /\ UNCHANGED <<docs0, allDocs, other>>
    /\ nAttempts < MaxObservedAttempts
    /\ nAttempts' = nAttempts + 1
    /\ outcomes' = Append(outcomes, o)
    /\ UNCHANGED <<status, docs, op, title, url, excerpt, fRet, content, doc, sumQuery,
                   sumRun, last, tempFiles, goal, warning, writerDeps>>
    /\ IF o = "ok"
       THEN /\ sResults' = [i \in 1..Len(hits) |-> to_search_result(hits[i])]
            /\ ret' = Return("results")
            /\ pc' = "idle"
            /\ UNCHANGED <<attempt, sleeps>>
       ELSE LET h == search_except(o, attempt)
            IN  IF h = "sleep"
                THEN /\ sleeps' = Append(sleeps, search_backoff(attempt))
                     /\ attempt' = next_attempt(attempt)
                     /\ IF in_range(attempt')
                        THEN pc' = "search" /\ ret' = ret
                        ELSE pc' = "idle" /\ ret' = Return("None")
                     /\ UNCHANGED sResults
                ELSE /\ ret' = Raise(IF h = "NameError" THEN "NameError" ELSE o)
                     /\ pc' = "idle"
                     /\ UNCHANGED <<attempt, sleeps, sResults>>

\* variant: the minimum counted as too few
too_few_docs_inclusive(n) == n <= N_DOCS_MIN_FOR_REPORT
\* `len(report_writer_deps.docs) < N_DOCS_MIN_FOR_REPORT`
too_few_docs(n) == n < N_DOCS_MIN_FOR_REPORT

\* variant: without the fallback to user_intent_short
normal_intent_no_fallback(long, short) == long
\* `if (not user_intent_long) and user_intent_short: user_intent_long = user_intent_short`
normal_intent(long, short) ==
    IF long = "" /\ short \notin {NoneStr, ""} THEN short ELSE long

\* what the agent passes as user_intent_long and user_intent_short
IntentsLong == {"", "g1"}
IntentsShort == {NoneStr, "", "g2"}

\* the agent calls the tool write_report(ctx, user_intent_long, user_intent_short):
\* the assert, the readiness check, and the call of the report writer up to its await
write_report(user_intent_long, user_intent_short) ==
    /\ pc = "idle"
    /\ op' = "report"
    /\ last' = NoLast
    /\ attempt' = 0
    /\ nAttempts' = 0
    /\ sleeps' = << >>
    /\ outcomes' = << >>
    /\ fRet' = NoFRet
    /\ content' = NoneTxt
    /\ doc' = NoDoc
    /\ sumQuery' = << >>
    /\ sumRun' = NoRun
    /\ sResults' = << >>
    /\ title' = NoneStr
    /\ url' = NoneStr
    /\ excerpt' = NoneTxt
    /\ status' = NoStatus
    /\ docs0' = docs
    /\ UNCHANGED <<docs, tempFiles, allDocs, other>>
    /\ goal' = normal_intent(user_intent_long, user_intent_short)
    /\ IF goal' = ""
       THEN /\ ret' = Raise("AssertionError")
            /\ pc' = "idle"
            /\ warning' = NoWarning
            /\ writerDeps' = << >>
       ELSE IF too_few_docs(Len(docs))
       THEN /\ warning' = WarningTooFewDocs(goal', Len(docs))
            /\ ret' = Return("WarningTooFewDocs")
            /\ pc' = "idle"
            /\ writerDeps' = << >>
       ELSE /\ writerDeps' = <<ReportWriterDeps(goal', docs)>>
            /\ ret' = NoRet
            /\ pc' = "write"
            /\ warning' = NoWarning

\* what report_writer_agent.run can give back: a report, or an exception
ReportWriterRuns == {"report", "raise"}

\* report_writer_agent.run comes back to write_report, which returns the report
report_writer_returns(run) ==
    /\ pc = "write"
    /\ UNCHANGED <<docs0, allDocs, other>>
    /\ pc' = "idle"
    /\ ret' = IF run = "report" THEN Return("ResearchReport") ELSE Raise("ReportWriterError")
    /\ UNCHANGED <<status, docs, op, title, url, excerpt, attempt, nAttempts, sleeps, outcomes,
                   fRet, content, doc, sumQuery, sumRun, sResults, last, tempFiles,
                   goal, warning, writerDeps>>

\* a tool call that awaits nothing: it starts and returns value v in one step
call_returns(name, v) ==
    /\ pc = "idle"
    /\ op' = name
    /\ pc' = "idle"
    /\ ret' = Return(v)
    /\ last' = NoLast
    /\ attempt' = 0
    /\ nAttempts' = 0
    /\ sleeps' = << >>
    /\ outcomes' = << >>
    /\ fRet' = NoFRet
    /\ content' = NoneTxt
    /\ doc' = NoDoc
    /\ sumQuery' = << >>
    /\ sumRun' = NoRun
    /\ sResults' = << >>
    /\ title' = NoneStr
    /\ url' = NoneStr
    /\ excerpt' = NoneTxt
    /\ goal' = ""
    /\ warning' = NoWarning
    /\ writerDeps' = << >>
    /\ status' = NoStatus
    /\ docs0' = docs
    /\ UNCHANGED <<tempFiles, other>>

\* the message n_docs_downloaded picks by `n_docs = len(ctx.deps.docs)`
n_docs_message(n) == IF n = 0 THEN "NoDocs" ELSE IF n = 1 THEN "OneDoc" ELSE "ManyDocs"

\* variant: the titles collected by popping the Docs off the list
n_docs_downloaded_draining ==
    /\ call_returns("count", n_docs_message(Len(docs)))
    /\ docs' = << >>
    /\ UNCHANGED allDocs
\* the agent calls the tool n_docs_downloaded(ctx): it reads the length and the
\* titles of ctx.deps.docs
n_docs_downloaded ==
    /\ call_returns("count", n_docs_message(Len(docs)))
    /\ UNCHANGED <<docs, allDocs>>

\* the agent calls the tool get_all_docs(ctx): `return ctx.deps.docs` hands out
\* the list object of the knowledge base itself
get_all_docs ==
    /\ call_returns("all", "docs")
    /\ allDocs' = [valid |-> TRUE, ref |-> KbList, at |-> docs]
    /\ UNCHANGED docs

\* the locals of the running task
Frame ==
    [op |-> op, pc |-> pc, title |-> title, url |-> url, excerpt |-> excerpt,
     attempt |-> attempt, nAttempts |-> nAttempts, sleeps |-> sleeps,
     outcomes |-> outcomes, fRet |-> fRet, content |-> content, doc |-> doc,
     sumQuery |-> sumQuery, sumRun |-> sumRun, ret |-> ret, sResults |-> sResults,
     last |-> last, goal |-> goal, warning |-> warning, writerDeps |-> writerDeps,
     status |-> status, docs0 |-> docs0]

\* the event loop passes control to the other task: the running task is suspended
\* at an await (or has not started, or has ended), the other task's locals
\* become the running ones; the knowledge base and the disk are shared
switch ==
    /\ other' = Frame
    /\ op' = other.op
    /\ pc' = other.pc
    /\ title' = other.title
    /\ url' = other.url
    /\ excerpt' = other.excerpt
    /\ attempt' = other.attempt
    /\ nAttempts' = other.nAttempts
    /\ sleeps' = other.sleeps
    /\ outcomes' = other.outcomes
    /\ fRet' = other.fRet
    /\ content' = other.content
    /\ doc' = other.doc
    /\ sumQuery' = other.sumQuery
    /\ sumRun' = other.sumRun
    /\ ret' = other.ret
    /\ sResults' = other.sResults
    /\ last' = other.last
    /\ goal' = other.goal
    /\ warning' = other.warning
    /\ writerDeps' = other.writerDeps
    /\ status' = other.status
    /\ docs0' = other.docs0
    /\ UNCHANGED <<docs, tempFiles, allDocs>>

\* ---------------------------------------------------------- specifications
\* the session: the tools that search, acquire and report, a small web (one URL,
\* a short and an oversized page)
Next ==
    \/ \E hasDeps \in BOOLEAN, c \in CandidatesSession :
          Len(docs) < MaxDocs /\ tempFiles < MaxTempFiles /\ fetch_online_doc(hasDeps, c)
    \/ \E o \in {"ok", "ClientConnectorError"}, t \in FetchTextsSession : fetch_attempt(o, t)
    \/ fetch_backoff_done
    \/ \E run \in SummarizerRunsSession : summarizer_returns(run)
    \/ web_search
    \/ \E o \in SearchOutcomes, hits \in ProviderResponses : search_attempt(o, hits)
    \/ \E long \in IntentsLong, short \in IntentsShort : write_report(long, short)
    \/ \E run \in ReportWriterRuns : report_writer_returns(run)

Spec == Init /\ [][Next]_vars

\* the network clients: every outcome of every attempt, few candidates and pages
NextNet ==
    \/ \E c \in CandidatesNet :
          Len(docs) < MaxDocsFocus /\ tempFiles < MaxTempFiles /\ fetch_online_doc(TRUE, c)
    \/ \E o \in FetchOutcomes, t \in FetchTextsSession : fetch_attempt(o, t)
    \/ fetch_backoff_done
    \/ \E run \in SummarizerRunsSession : summarizer_returns(run)
    \/ web_search
    \/ \E o \in SearchOutcomes, hits \in ProviderResponses : search_attempt(o, hits)

SpecNet == Init /\ [][NextNet]_vars

\* every attempt and every summarization call completes
FairSpecNet == SpecNet /\ WF_vars(NextNet)

\* the admission path: every candidate form, every page length, every answer of
\* the summarization service; an attempt succeeds or fails for good
NextGate ==
    \/ \E hasDeps \in BOOLEAN, c \in Candidates :
          Len(docs) < MaxDocsFocus /\ tempFiles < MaxTempFiles /\ fetch_online_doc(hasDeps, c)
    \/ \E o \in {"ok", "Exception"}, t \in FetchTexts : fetch_attempt(o, t)
    \/ \E run \in SummarizerRuns : summarizer_returns(run)

SpecGate == Init /\ [][NextGate]_vars

\* the tools that read the knowledge base, next to a small acquisition
NextRead ==
    \/ \E c \in StrCandidates({"http://a"}, {NoneStr}, {NoneTxt}) :
          Len(docs) < MaxDocs /\ tempFiles < MaxTempFiles /\ fetch_online_doc(TRUE, c)
    \/ \E t \in FetchTextsSession : fetch_attempt("ok", t)
    \/ \E run \in SummarizerRunsSession : summarizer_returns(run)
    \/ web_search
    \/ \E o \in SearchOutcomes, hits \in ProviderResponses : search_attempt(o, hits)
    \/ n_docs_downloaded
    \/ get_all_docs
    \/ \E long \in IntentsLong, short \in IntentsShort : write_report(long, short)
    \/ \E run \in ReportWriterRuns : report_writer_returns(run)

SpecRead == Init /\ [][NextRead]_vars

\* two acquire calls as two tasks of one event loop: each task makes one call,
\* and control passes from one task to the other only between steps, that is at
\* an await that suspends
CandidatesPair ==
    StrCandidates({"http://a"}, {NoneStr}, {NoneTxt})
    \cup SearchResultCandidates({"http://a"}, {"t1"}, {ExcerptText})

NextPair ==
    \/ \E c \in CandidatesPair : op = "none" /\ fetch_online_doc(TRUE, c)
    \/ \E o \in {"ok", "ClientConnectorError"}, t \in FetchTextsSession : fetch_attempt(o, t)
    \/ fetch_backoff_done
    \/ \E run \in SummarizerRunsSession : summarizer_returns(run)
    \/ switch

SpecPair == Init /\ [][NextPair]_vars

\* ------------------------------------------------------------------ claims
ConnectionFailures == {"ClientConnectorError", "ClientResponseError"}
AllOutcomesIn(S) == outcomes # << >> /\ \A i \in 1..Len(outcomes) : outcomes[i] \in S
AcquireDone == op = "acquire" /\ pc = "idle" /\ ret.kind # "none"
SearchDone == op = "search" /\ pc = "idle" /\ ret.kind # "none"
Oversized == ~content.none /\ Len(content.v) > n_char_threshold

\* C1: the knowledge base never holds two Docs equal on (title, url, text).
C1_NoEqualDocs ==
    \A i, j \in 1..Len(docs) : i # j => docs[i] # docs[j]

\* C2: when an acquire call repeats the title and url of the acquire call right
\* before it and the fetcher returns the same non-empty text, the step that ends
\* the second call leaves the size of the knowledge base as the first call left it.
C2_IdempotentDedup ==
    [][(pc # "idle" /\ pc' = "idle" /\ op = "acquire" /\ last.valid
        /\ fRet'.kind = "return" /\ fRet'.text # << >> /\ fRet'.text = last.text)
       => Len(docs') = Len(docs)]_vars

\* C3: every Doc in the knowledge base has non-empty text.
C3_NoEmptyText ==
    \A i \in 1..Len(docs) : docs[i].text # << >>

\* C3 witness: a fetch gave nothing, the excerpt was the empty string, and the call
\* ended without inserting.
C3_EmptyRejected ==
    /\ AcquireDone
    /\ fRet = [kind |-> "return", text |-> << >>]
    /\ content = Some(<< >>)
    /\ ret = Return("CouldntBeRetrieved")
    /\ docs = << >>

C5_TailCap ==
    LET T == n_char_threshold
        CAP == max_pages_in_char
        Kept(t) == \A i \in 1..Len(t) : t[i] <= T + CAP
    IN  /\ \A k \in 1..Len(sumQuery) :
              LET q == sumQuery[k]
                  n == Len(content.v)
              IN  /\ Oversized
                  /\ q.tail = SubSeq(content.v, T + 1, T + Min(n - T, CAP))
                  /\ Len(q.tail) <= CAP
                  /\ Kept(q.tail)
                  /\ Kept(q.first_chunk)
        /\ \A i \in 1..Len(docs) : Kept(docs[i].text)

\* C5 witness: a text longer than T + CAP went to the service and its Doc was stored.
C5_CappedTailSent ==
    /\ AcquireDone
    /\ ~content.none
    /\ Len(content.v) > n_char_threshold + max_pages_in_char
    /\ Len(sumQuery) = 1
    /\ Len(sumQuery[1].tail) = max_pages_in_char
    /\ sumRun.kind = "str"
    /\ docs # << >>

\* C6: when every attempt of the fetcher failed with a connection failure, the
\* fetcher made N_RETRIES + 1 attempts, slept 2^a after attempt a for
\* a = 0..N_RETRIES-1 and not after the last, and returned the empty string.
C6_RetryBound ==
    (op = "acquire" /\ fRet.kind # "none" /\ AllOutcomesIn(ConnectionFailures))
    => /\ nAttempts = N_RETRIES + 1
       /\ Len(outcomes) = N_RETRIES + 1
       /\ sleeps = [i \in 1..N_RETRIES |-> 2 ^ (i - 1)]
       /\ fRet = [kind |-> "return", text |-> << >>]

\* C6 witness: the fetcher gave up after N_RETRIES + 1 connection failures.
C6_Exhausted ==
    /\ op = "acquire"
    /\ fRet.kind = "return"
    /\ AllOutcomesIn(ConnectionFailures)
    /\ Len(outcomes) = N_RETRIES + 1

\* C7: when the provider signals a rate limit on every attempt, _web_search makes
\* N_RETRIES + 1 provider calls, waits 4*(1+a) after attempt a < N_RETRIES, and
\* raises the provider's rate-limit error.
C7_RateLimitBackoff ==
    (SearchDone /\ AllOutcomesIn({"Ratelimit"}))
    => /\ nAttempts = N_RETRIES + 1
       /\ sleeps = [i \in 1..N_RETRIES |-> 4 * i]
       /\ ret = Raise("Ratelimit")

\* C8: whatever the attempts' outcomes, the fetcher hands its caller a string: once
\* the retry loop is left the fetcher has returned (the last attempt's text, or the
\* empty string after a failure), and it never raised.
C8_FetcherNeverRaises ==
    /\ fRet.kind \in {"none", "return"}
    /\ (op = "acquire" /\ outcomes # << >> /\ pc \notin {"fetch", "fetch_sleep"})
       => /\ fRet.kind = "return"
          /\ fRet.text \in FetchTexts
          /\ outcomes[Len(outcomes)] # "ok" => fRet.text = << >>

\* C8 witness: an attempt ended with an exception that is no network error and the
\* fetcher returned the empty string.
C8_TerminalSwallowed ==
    /\ op = "acquire"
    /\ outcomes # << >>
    /\ outcomes[Len(outcomes)] \in {"Exception", "TimeoutError"}
    /\ fRet = [kind |-> "return", text |-> << >>]

\* C9: with a summarization service that does not fail, an acquire call ends by
\* returning a status string; no exception escapes.
C9_NoExceptionEscapes ==
    (AcquireDone /\ sumRun.kind # "raise") => ret.kind = "return"

\* C10: the retry loops never make more than N_RETRIES + 1 attempts, and every
\* tool call in flight ends, by returning or by raising.
C10_Terminates ==
    /\ [](nAttempts <= N_RETRIES + 1)
    /\ (pc # "idle") ~> (pc = "idle" /\ ret.kind \in {"return", "raise"})

\* C10 witness: an acquire call that used every attempt has ended.
C10_EndedAfterAllAttempts ==
    /\ AcquireDone
    /\ nAttempts = N_RETRIES + 1
    /\ Len(sleeps) = N_RETRIES

\* C11: when a PDF extraction call has finished, by returning or by raising, the
\* temporary file it created is deleted: no temporary file of a finished
\* extraction call is on disk.
C11_TempFileDeleted ==
    tempFiles = 0

\* C12: for a non-empty goal, write_report returns WarningTooFewDocs(goal, size of
\* the knowledge base), without calling the report writer and without raising,
\* exactly when the size is below N_DOCS_MIN_FOR_REPORT; otherwise it calls the
\* report writer once, with the goal and the knowledge base in insertion order,
\* and returns no warning.
C12_ReadinessCheck ==
    (op = "report" /\ goal # "" /\ (pc = "write" \/ ret.kind # "none"))
    => /\ warning.valid <=> (Len(docs) < N_DOCS_MIN_FOR_REPORT)
       /\ warning.valid =>
             /\ warning = [valid |-> TRUE, user_intent_long |-> goal, n_docs |-> Len(docs)]
             /\ writerDeps = << >>
             /\ ret = Return("WarningTooFewDocs")
       /\ ~warning.valid =>
             /\ writerDeps = <<[user_intent_long |-> goal, docs |-> docs]>>
             /\ ret # Return("WarningTooFewDocs")

\* C12 witness: with N_DOCS_MIN_FOR_REPORT documents acquired, the report writer
\* was called with them and its report returned.
C12_ReportWritten ==
    /\ op = "report"
    /\ Len(docs) = N_DOCS_MIN_FOR_REPORT
    /\ ret = Return("ResearchReport")
    /\ Len(writerDeps) = 1
    /\ writerDeps[1].docs = docs

\* C13: every step leaves the knowledge base as it was or appends one Doc at its
\* end, the Docs already there keeping their place, title, url and text; the
\* appending step is the one that ends an acquire call, so a call appends at most
\* once.
C13_MonotonicGrowth ==
    [][/\ \/ docs' = docs
          \/ /\ Len(docs') = Len(docs) + 1
             /\ SubSeq(docs', 1, Len(docs)) = docs
       /\ docs' # docs => (op = "acquire" /\ pc # "idle" /\ pc' = "idle")]_vars

\* C13 witness: an acquire call appended its Doc behind the Docs already there.
C13_AppendedBehind ==
    /\ AcquireDone
    /\ Len(docs) >= 2
    /\ docs[Len(docs)] = doc
    /\ docs[1] # doc

\* C14: a call of fetch_online_doc without a url or without dependencies returns
\* the error string in the same step: it raises nothing, makes no fetch attempt,
\* sends nothing to the summarization service and leaves the knowledge base as
\* it was.
C14_MissingArgsRejected ==
    [][\A hasDeps \in BOOLEAN, c \in Candidates :
          (fetch_online_doc(hasDeps, c) /\ (~hasDeps \/ c.url = NoneStr))
          => /\ ret' = Return("ErrorMissingArgs")
             /\ pc' = "idle"
             /\ docs' = docs
             /\ nAttempts' = 0
             /\ outcomes' = << >>
             /\ sumQuery' = << >>]_vars

\* C14 witness: a call without its arguments was turned down while the knowledge
\* base held documents.
C14_RejectedWithDocs ==
    /\ AcquireDone
    /\ ret = Return("ErrorMissingArgs")
    /\ url = NoneStr
    /\ nAttempts = 0
    /\ docs # << >>

\* C15: when the Doc an acquire call constructs (title, url, fetched text) equals
\* a Doc of the knowledge base, the call returns the 'already present' status,
\* appends nothing and has sent nothing to the summarization service.
C15_AlreadyPresent ==
    [][(/\ op = "acquire" /\ pc # "idle" /\ pc' = "idle"
        /\ ~content'.none
        /\ \E i \in 1..Len(docs) : docs[i] = Doc(title, url, content'.v))
       => /\ ret' = Return("AlreadyPresent")
          /\ docs' = docs
          /\ sumQuery' = << >>]_vars

\* C16: when the fetcher returns the empty string, the acquire call inserts
\* nothing and returns the 'could not be retrieved' status, whatever the form of
\* the candidate (a bare url, a SearchResult with its excerpt).
C16_EmptyFetchNotInserted ==
    [][(op = "acquire" /\ pc = "fetch" /\ fRet'.kind = "return" /\ fRet'.text = << >>)
       => /\ docs' = docs
          /\ pc' = "idle"
          /\ ret' = Return("CouldntBeRetrieved")]_vars

\* C17: an attempt a < N_RETRIES of the fetcher that fails with a connection
\* failure, an HTTP response error or a timeout is followed by a sleep of 2^a,
\* and does not end the fetch.
C17_RetryableClassification ==
    \A i \in 1..Len(outcomes) :
        (/\ op = "acquire"
         /\ outcomes[i] \in ConnectionFailures \cup {"TimeoutError"}
         /\ i <= N_RETRIES)
        => /\ Len(sleeps) >= i
           /\ sleeps[i] = 2 ^ (i - 1)
           /\ i = Len(outcomes) => (fRet.kind = "none" /\ pc \in {"fetch_sleep", "fetch"})

\* C18: an attempt of the fetcher that raises an exception the retry clause does
\* not name is the last attempt, whatever its index: no sleep and no attempt
\* follows it, and the fetcher returns the empty string.
C18_TerminalNoRetry ==
    \A i \in 1..Len(outcomes) :
        (op = "acquire" /\ outcomes[i] \notin ConnectionFailures \cup {"ok"})
        => /\ i = Len(outcomes)
           /\ nAttempts = i
           /\ Len(sleeps) = i - 1
           /\ fRet = [kind |-> "return", text |-> << >>]

\* C18 witness: the last attempt allowed raised a terminal exception, after two
\* retried failures.
C18_TerminalOnLastAttempt ==
    /\ op = "acquire"
    /\ Len(outcomes) = N_RETRIES + 1
    /\ outcomes[N_RETRIES + 1] = "Exception"
    /\ Len(sleeps) = N_RETRIES
    /\ fRet = [kind |-> "return", text |-> << >>]

\* C19: a provider call that raises an error other than a rate limit is the last
\* provider call of _web_search, whatever its index: no sleep follows it and the
\* error itself is raised to the caller.
C19_ProviderErrorPropagates ==
    \A i \in 1..Len(outcomes) :
        (op = "search" /\ outcomes[i] \in {"DuckDuckGoSearchException", "OtherException"})
        => /\ i = Len(outcomes)
           /\ nAttempts = i
           /\ Len(sleeps) <= i - 1
           /\ pc = "idle"
           /\ ret = Raise(outcomes[i])

\* C19 witness: the provider failed with an error that is no rate limit and the
\* search call ended with that error, after one provider call and no sleep.
C19_ProviderErrorRaised ==
    /\ SearchDone
    /\ outcomes = <<"DuckDuckGoSearchException">>
    /\ ret = Raise("DuckDuckGoSearchException")
    /\ nAttempts = 1
    /\ sleeps = << >>

TotalDelay(sq) ==
    LET sum[i \in 0..Len(sq)] == IF i = 0 THEN 0 ELSE sum[i - 1] + sq[i]
    IN  sum[Len(sq)]

\* C21: during one add_doc call the summarization service is called once when the
\* text of the Doc is longer than the trigger threshold and not at all when it
\* is at most the threshold long; in that case the text is stored as it is.
C21_SummarizedOnceIfOversized ==
    /\ Len(sumQuery) <= 1
    /\ (op = "acquire" /\ doc # NoDoc)
       => Len(sumQuery) = (IF Len(content.v) > N_PAGE_SUMMARIZE_TRIGGER * CharsPerPage
                           THEN 1 ELSE 0)
    /\ (/\ AcquireDone /\ doc # NoDoc
        /\ Len(content.v) > 0
        /\ Len(content.v) <= N_PAGE_SUMMARIZE_TRIGGER * CharsPerPage)
       => docs = Append(docs0, Doc(title, url, content.v))

\* C21 witness: a text of exactly the threshold length was stored as it is, the
\* service not called.
C21_AtThresholdStored ==
    /\ AcquireDone
    /\ ~content.none
    /\ Len(content.v) = n_char_threshold
    /\ sumQuery = << >>
    /\ docs = <<Doc(title, url, content.v)>>

\* C22: when the summarization service fails, the acquire call ends by raising
\* that failure and the knowledge base is as it was when the call started: no
\* Doc is appended, unsummarized or otherwise.
C22_SummarizerFailurePropagates ==
    (AcquireDone /\ sumRun.kind = "raise")
    => /\ ret = Raise("SummarizerError")
       /\ docs = docs0

\* C22 witness: the service failed on an oversized text while the knowledge base
\* held a document.
C22_SummarizerFailed ==
    /\ AcquireDone
    /\ sumRun.kind = "raise"
    /\ Len(sumQuery) = 1
    /\ Oversized
    /\ docs # << >>

\* C23: the sequence get_all_docs returned holds what it held when it was
\* returned, whatever acquire calls came after.
C23_AllDocsSnapshot ==
    allDocs.valid => ListContents(allDocs.ref) = allDocs.at

\* C24: a step that inserts a Doc ends add_doc by returning a status string whose
\* snippet is a prefix of the stored text, at most the preview length long, and
\* whose size is the size of the knowledge base after the append.
C24_StatusSnippetAndSize ==
    [][docs' # docs
       => /\ ret'.kind = "return"
          /\ status'.valid
          /\ Len(status'.snippet) <= SnippetChars
          /\ status'.snippet = SubSeq(docs'[Len(docs')].text, 1, Len(status'.snippet))
          /\ status'.n_docs = Len(docs')]_vars

\* C25: when the first k attempts of the fetcher failed with a network error of
\* the retry clause and the next attempt succeeds with text t, k <= N_RETRIES,
\* the fetcher returns t after k + 1 attempts and sleeps 2^0 .. 2^(k-1), and
\* attempts nothing more; the delays of a fetch never add up to more than
\* 2^N_RETRIES - 1.
C25_SuccessAfterRetries ==
    [][/\ op' = "acquire" => TotalDelay(sleeps') <= 2 ^ N_RETRIES - 1
       /\ \A t \in FetchTexts :
             (/\ fetch_attempt("ok", t)
              /\ \A i \in 1..Len(outcomes) : outcomes[i] \in ConnectionFailures)
             => LET k == Len(outcomes)
                IN  /\ k <= N_RETRIES
                    /\ fRet' = [kind |-> "return", text |-> t]
                    /\ nAttempts' = k + 1
                    /\ sleeps' = [i \in 1..k |-> 2 ^ (i - 1)]
                    /\ pc' \notin {"fetch", "fetch_sleep"}]_vars

\* C25 witness: two failed attempts, then the last attempt allowed succeeded.
C25_SucceededOnLastAttempt ==
    /\ op = "acquire"
    /\ Len(outcomes) = N_RETRIES + 1
    /\ \A i \in 1..N_RETRIES : outcomes[i] \in ConnectionFailures
    /\ outcomes[N_RETRIES + 1] = "ok"
    /\ sleeps = <<1, 2>>
    /\ fRet.kind = "return"
    /\ fRet.text # << >>

\* C26: an acquire call that ends by raising leaves the knowledge base as it was
\* when the call started.
C26_AtomicOnError ==
    (AcquireDone /\ ret.kind = "raise") => docs = docs0

\* C27: when two acquire calls for the same candidate, run as two tasks of one
\* event loop, have both ended and fetched the same non-empty text, not longer
\* than the summarization threshold, the knowledge base holds one copy of the Doc.
C27_OneCopyWhenInterleaved ==
    (/\ op = "acquire" /\ pc = "idle" /\ ret.kind # "none"
     /\ other.op = "acquire" /\ other.pc = "idle" /\ other.ret.kind # "none"
     /\ title = other.title /\ url = other.url /\ excerpt = other.excerpt
     /\ fRet.kind = "return" /\ other.fRet.kind = "return"
     /\ fRet.text = other.fRet.text
     /\ fRet.text # << >>
     /\ Len(fRet.text) <= N_PAGE_SUMMARIZE_TRIGGER * CharsPerPage)
    => Cardinality({i \in 1..Len(docs) : docs[i] = Doc(title, url, fRet.text)}) = 1

\* C28: a step of web_search, n_docs_downloaded, get_all_docs or write_report
\* (warning branch, writer branch, the writer's return) leaves the knowledge base
\* as it was; a step that changes it is add_doc appending the Doc of an acquire call.
C28_OnlyAddDocWrites ==
    [][/\ op' \in {"search", "count", "all", "report"} => docs' = docs
       /\ docs' # docs => (op' = "acquire" /\ docs' = Append(docs, doc'))]_vars

\* C28 witness: n_docs_downloaded ran on a knowledge base of several documents
\* and left it as it was.
C28_CountedWithDocs ==
    /\ op = "count"
    /\ ret = Return("ManyDocs")
    /\ Len(docs) >= 2
    /\ docs = docs0

\* C29: the knowledge base never holds two entries with the same url and the same
\* text, one acquired as a bare url (its title the url) and one as a SearchResult
\* (its title the provider's).
C29_OneEntryPerUrl ==
    \A i, j \in 1..Len(docs) :
        ~(/\ docs[i].url = docs[j].url
          /\ docs[i].text = docs[j].text
          /\ docs[i].title = docs[i].url
          /\ docs[j].title # docs[j].url)

\* C30: a call write_report(long, short) works with long when it is not empty and
\* with short when long is empty and short is given; the warning it returns and
\* the deps it hands to the report writer carry that goal, which is not empty;
\* with both empty it returns no warning and calls no report writer.
C30_NonEmptyGoal ==
    [][\A long \in IntentsLong, short \in IntentsShort :
          write_report(long, short)
          => LET given == short \notin {NoneStr, ""}
                 g == IF long # "" THEN long ELSE IF given THEN short ELSE ""
             IN  /\ g = "" => (~warning'.valid /\ writerDeps' = << >> /\ ret'.kind = "raise")
                 /\ g # "" => (warning'.valid \/ writerDeps' # << >>)
                 /\ warning'.valid => (warning'.user_intent_long = g /\ g # "")
                 /\ \A k \in 1..Len(writerDeps') :
                       writerDeps'[k].user_intent_long = g /\ g # ""]_vars

\* C30 witness: the long goal was empty and the warning carries the short goal.
C30_ShortGoalUsed ==
    /\ op = "report"
    /\ goal = "g2"
    /\ warning = WarningTooFewDocs("g2", Len(docs))
    /\ ret = Return("WarningTooFewDocs")

====
